---- MODULE Spec2Model ----
(***************************************************************************)
(* Agentic RAG on EKS: the tool-calling agent loop and its collaborators.  *)
(*                                                                         *)
(* Two programs of the repository share the tool clients (MCPClient):      *)
(*   app = "supervisor"  SupervisorAgent driving MCPAgent.executeTask      *)
(*                       (agentic-apps/agentic_rag_opensearch)             *)
(*   app = "mcp"         main -> Agent.init / Agent.invoke / Agent.close   *)
(*                       (mcp)                                             *)
(* Every await of the code is a suspension point: the request and the      *)
(* answer of an external call (chat endpoint, tool server, transport) are  *)
(* separate actions, so that close() can run while the loop is in flight.  *)
(***************************************************************************)
EXTENDS Integers, Sequences, FiniteSets, TLC

\* ------------------------------------------------------------------ bounds

\* Tool calls a scripted chat endpoint may request in one conversation, in
\* one turn or spread over several.
MaxCalls == 2
\* close() calls the caller of the supervisor may make (main of the mcp
\* program makes its two close() calls whatever this bound).
MaxCloses == 1
\* Tool clients handed to the agent.
NumClients == 2
\* The iteration ceiling the design names for the chat/tool loop.
TurnCeiling == 25

Clients == 1..NumClients

\* ------------------------------------------------------------------ data

\* The tool list a tool server answers listTools() with.
ClientTools(c) == IF c = 1 THEN {"get_weather"} ELSE {"get_weather", "write_file"}

\* Tool names a model may put in a tool call: two served ones and one that
\* no server lists.
ToolNames == {"get_weather", "write_file", "no_such_tool"}

\* Serialized arguments of a tool call: well-formed JSON and malformed JSON.
ArgStrings == {"{}", "{bad"}

\* JSON.parse(argsString) returns a value for well-formed text and throws a
\* SyntaxError otherwise.
ParseOK(argsString) == argsString = "{}"

NoId == 0
NoCalls == << >>
NoResult == << >>

\* Final answers of the endpoint.
Answers == {<<"text", "answer-1">>, <<"text", "answer-2">>}
Thinking == <<"text", "calling tools">>

Query == <<"text", "query">>
Context == <<"text", "context">>
\* The system prompt executeTask builds around the retrieved context.
SystemPrompt(context) == <<"text", "system prompt">> \o context

Msg(role, content, id, calls) ==
    [role |-> role, content |-> content, tool_call_id |-> id, toolCalls |-> calls]

\* The id the endpoint gives the i-th tool call of its t-th response.
CallId(t, i) == t * 10 + i

\* The tool-call lists of at most n calls the endpoint may put in its t-th answer.
ToolCallLists(t, n) ==
    UNION { { [i \in 1..k |-> [id |-> CallId(t, i), name |-> f[i][1], args |-> f[i][2]]]
              : f \in [1..k -> ToolNames \X ArgStrings] } : k \in 1..n }

\* Tool calls requested so far in a history.
RECURSIVE CountCalls(_)
CountCalls(msgs) ==
    IF msgs = << >> THEN 0 ELSE Len(Head(msgs).toolCalls) + CountCalls(Tail(msgs))

\* The one tool call an endpoint that never stops requesting tools repeats.
EndlessCalls(t) == << [id |-> CallId(t, 1), name |-> "no_such_tool", args |-> "{}"] >>

NoResponse == [content |-> NoResult, toolCalls |-> NoCalls]

\* ------------------------------------------------------------------ state

VARIABLES
    app,         \* which program runs: "supervisor" or "mcp"
    endpoint,    \* the chat endpoint: "scripted" or "endless" (always asks for a tool)
    tools,       \* MCPClient.tools of each client
    conn,        \* state of each client's connection to its tool server
    closeCalls,  \* times mcp.close() was invoked on each client
    forwarded,   \* the tool servers' log of calls received: [client, name, id, outcome]
    initPc,      \* Agent.init / MCPAgent.init: 0 before, the client awaited, NumClients + 1 done, -1 failed
    llm,         \* this.llm !== null
    messages,    \* ChatOpenAI.messages of the conversation in use
    pc,          \* executeTask: "idle", "chat", "tools", "tool_wait", "done", "failed"
    response,    \* the latest response chat() returned
    tcIdx,       \* position of the for-loop over response.toolCalls
    waitClient,  \* the client whose callTool is awaited
    turns,       \* chat() calls made by the running task
    chatFails,   \* chat() calls of the running task the endpoint failed
    taskResult,  \* what executeTask / invoke returned
    closePc,     \* close(): 0 when no close loop runs, else the client awaited
    closeBy,     \* who awaits the running close loop: "caller", "invoke", "main"
    closes,      \* close() calls started on the agent
    lastClose,   \* how the latest finished close() ended: "none", "ok", "failed"
    wfPc,        \* executeWorkflow: "idle", "check", "embed", "retrieve", "tools", "returned", "thrown"
    results,     \* SupervisorAgent.results, in insertion order
    mainPc,      \* main of the mcp program
    variant,     \* which EmbeddingRetriever is exercised: "resize", "opensearch", "bedrock"
    indexPc,     \* initIndex of the remote store: "none", awaiting "exists" or "create", "over"
    store,       \* the records of the vector store, in insertion order
    inflight,    \* index requests sent to the search backend and not yet settled
    rpc,         \* the retriever operation in progress: "idle", "fetch", "add", "search"
    call,        \* the operation called last on the retriever or the store, with its arguments
    ret,         \* what that operation returned
    chatTools,   \* ChatOpenAI.tools of the conversation exercised on its own
    request      \* the request that conversation sent last to chat.completions.create

clientVars == <<tools, conn, closeCalls, forwarded>>
taskVars == <<messages, pc, response, tcIdx, waitClient, turns, chatFails, taskResult>>
closeVars == <<closePc, closeBy, closes, lastClose>>
wfVars == <<wfPc, results>>
retrieverVars == <<variant, indexPc, store, inflight, rpc, call, ret>>
chatVars == <<chatTools, request>>
componentVars == <<retrieverVars, chatVars>>
vars == <<app, endpoint, initPc, llm, mainPc, clientVars, taskVars, closeVars, wfVars,
          componentVars>>

\* No operation called yet, nothing returned yet.
NoCall == [op |-> "none", text |-> "", topK |-> 0, fetched |-> "none"]
NoReturn == [kind |-> "none"]

\* The retriever and its store before anything is called on them.
RetrieverFields ==
    /\ store = << >>
    /\ inflight = << >>
    /\ rpc = "idle"
    /\ call = NoCall
    /\ ret = NoReturn

\* No request sent yet.
NoRequest == [model |-> "none"]

\* The conversation exercised on its own, when it is not the program under study.
ChatFields ==
    /\ chatTools = << >>
    /\ request = NoRequest

\* The fields of the agents after construction.
AgentFields ==
    /\ tools = [c \in Clients |-> {}]
    /\ conn = [c \in Clients |-> "Uninitialized"]
    /\ closeCalls = [c \in Clients |-> 0]
    /\ forwarded = << >>
    /\ initPc = 0
    /\ llm = FALSE
    /\ messages = << >>
    /\ pc = "idle"
    /\ response = NoResponse
    /\ tcIdx = 0
    /\ waitClient = 0
    /\ turns = 0
    /\ chatFails = 0
    /\ taskResult = NoResult
    /\ closePc = 0
    /\ closeBy = "none"
    /\ closes = 0
    /\ lastClose = "none"
    /\ wfPc = "idle"
    /\ results = << >>
    /\ mainPc = "start"

Init ==
    /\ app \in {"supervisor", "mcp"}
    /\ endpoint \in {"scripted", "endless"}
    /\ app = "mcp" => endpoint = "scripted"
    /\ AgentFields
    /\ variant = "none"
    /\ indexPc = "none"
    /\ RetrieverFields
    /\ ChatFields

\* ------------------------------------------------------------------ ChatOpenAI

\* A tool-role message pushed without the id of the call it answers.
AppendToolResultUnnamed(msgs, toolCallId, toolOutput) ==
    Append(msgs, Msg("tool", toolOutput, NoId, NoCalls))

\* appendToolResult(toolCallId, toolOutput): push one tool-role message.
AppendToolResult(msgs, toolCallId, toolOutput) ==
    Append(msgs, Msg("tool", toolOutput, toolCallId, NoCalls))

\* A prompt that is pushed only when the history does not hold it yet.
PushPromptOnce(msgs, prompt) ==
    IF prompt # NoResult /\ \A i \in 1..Len(msgs) : msgs[i] # Msg("user", prompt, NoId, NoCalls)
    THEN Append(msgs, Msg("user", prompt, NoId, NoCalls))
    ELSE msgs

\* chat(prompt): a non-empty prompt is pushed as a user message before the
\* request is sent; chat() pushes nothing.
PushPrompt(msgs, prompt) ==
    IF prompt # NoResult THEN Append(msgs, Msg("user", prompt, NoId, NoCalls)) ELSE msgs

\* chat() of the conversation MCPAgent uses, on an answer: the assistant's
\* raw response, tool-call requests included, is pushed to the history.
PushAssistant(msgs, r) == Append(msgs, Msg("assistant", r.content, NoId, r.toolCalls))

\* An answer that takes the place of the latest message instead of following it.
ReplaceWithAssistantContent(msgs, content) ==
    IF msgs = << >> THEN <<Msg("assistant", content, NoId, NoCalls)>>
    ELSE [msgs EXCEPT ![Len(msgs)] = Msg("assistant", content, NoId, NoCalls)]

\* chat() of the mcp program, on an answer: the content alone is pushed, and
\* the returned toolCalls are always empty.
PushAssistantContent(msgs, content) == Append(msgs, Msg("assistant", content, NoId, NoCalls))

\* updateSystemPrompt(systemPrompt) on the conversation MCPAgent.init built
\* with no system prompt and no context: the system message leads the history.
UpdateSystemPrompt(msgs, systemPrompt) ==
    IF Len(msgs) > 0 /\ msgs[1].role = "system"
    THEN [msgs EXCEPT ![1] = Msg("system", systemPrompt, NoId, NoCalls)]
    ELSE <<Msg("system", systemPrompt, NoId, NoCalls)>> \o msgs

\* ------------------------------------------------------------------ serialization

\* JSON.stringify({ error: error.message })
ErrorPayload(message) == <<"error">> \o message
\* JSON.stringify(result)
ResultPayload(result) == <<"result">> \o result

\* new Error(`No MCP client found for tool: ${name}`)
NotFoundMessage(name) == <<"No MCP client found for tool: ", name>>
\* The SyntaxError JSON.parse throws; it speaks of the text, not of the tool.
SyntaxErrorMessage == <<"Unexpected token in JSON">>
\* What a tool server answers and what a failing call rejects with.
ToolOutput(name) == <<"output of", name>>
ToolFailure == <<"tool call failed">>
NotInitializedMessage == <<"MCP Agent not initialized">>
ChatFailure == <<"chat completion request failed">>

\* ------------------------------------------------------------------ supervisor records

Record(type, success, error) == [type |-> type, success |-> success, error |-> error]

\* executeTask returns: executeWithTools records the success and
\* executeWorkflow returns the result.
TaskReturns(content) ==
    /\ pc' = "done"
    /\ taskResult' = content
    /\ results' = Append(results, Record("mcp_tool", TRUE, NoResult))
    /\ wfPc' = "returned"

\* executeTask throws: its catch rethrows, executeWithTools records the
\* failure and rethrows, executeWorkflow rethrows.
TaskThrowsFrom(res, message) ==
    /\ pc' = "failed"
    /\ taskResult' = NoResult
    /\ results' = Append(res, Record("mcp_tool", FALSE, message))
    /\ wfPc' = "thrown"

TaskThrows(message) == TaskThrowsFrom(results, message)

\* ------------------------------------------------------------------ MCPAgent.executeTask

\* The for-loop over response.toolCalls, then llm.chat() with no prompt.
Advance(newMessages) ==
    /\ messages' = newMessages
    /\ waitClient' = 0
    /\ IF tcIdx < Len(response.toolCalls)
       THEN /\ tcIdx' = tcIdx + 1
            /\ pc' = "tools"
            /\ turns' = turns
       ELSE /\ tcIdx' = 0
            /\ pc' = "chat"
            /\ turns' = turns + 1
    /\ UNCHANGED <<response, chatFails, taskResult, wfVars>>

\* The loop walking the tool calls from the last to the first.
CurrentCallReversed == response.toolCalls[Len(response.toolCalls) + 1 - tcIdx]

\* for (const toolCall of response.toolCalls)
CurrentCall == response.toolCalls[tcIdx]

\* A lookup that falls back to the first client when no client lists the tool.
FindClientOrFirst(name) ==
    LET having == { c \in Clients : name \in tools[c] }
    IN  IF having = {} THEN 1 ELSE CHOOSE c \in having : \A d \in having : c <= d

\* The lookup loop of processToolCall: the first client listing the tool, 0 if none.
FindClient(name) ==
    LET having == { c \in Clients : name \in tools[c] }
    IN  IF having = {} THEN 0 ELSE CHOOSE c \in having : \A d \in having : c <= d

\* A catch block that rethrows: the error leaves executeTask.
CatchRethrow(id, message) ==
    /\ TaskThrows(message)
    /\ waitClient' = 0
    /\ UNCHANGED <<messages, response, tcIdx, turns, chatFails>>

\* A catch block that only logs: the failed call gets no tool result.
CatchSwallow(id, message) == Advance(messages)

\* The catch block of processToolCall: the error becomes the tool result.
CatchToolError(id, message) ==
    Advance(AppendToolResult(messages, id, ErrorPayload(message)))

\* processToolCall up to its await: parse the arguments, look the client up,
\* forward the call; a parse error or a missing tool is caught at once.
ProcessToolCall ==
    /\ pc = "tools"
    /\ LET toolCall == CurrentCall
           client == FindClient(toolCall.name)
       IN  IF ~ParseOK(toolCall.args)
           THEN CatchToolError(toolCall.id, SyntaxErrorMessage) /\ UNCHANGED forwarded
           ELSE IF client = 0
           THEN CatchToolError(toolCall.id, NotFoundMessage(toolCall.name)) /\ UNCHANGED forwarded
           ELSE /\ forwarded' = Append(forwarded,
                                       [client |-> client, name |-> toolCall.name,
                                        id |-> toolCall.id, outcome |-> "pending"])
                /\ waitClient' = client
                /\ pc' = "tool_wait"
                /\ UNCHANGED <<messages, response, tcIdx, turns, chatFails, taskResult, wfVars>>
    /\ UNCHANGED <<app, endpoint, initPc, llm, mainPc, tools, conn, closeCalls, closeVars>>
    /\ UNCHANGED componentVars

\* client.callTool settles: the result is appended, or the rejection caught.
\* A connection that is not open can only reject.
ToolRespond ==
    /\ pc = "tool_wait"
    /\ \E ok \in BOOLEAN :
          /\ ok => conn[waitClient] = "Connected"
          /\ forwarded' = [forwarded EXCEPT ![Len(forwarded)].outcome =
                                                 IF ok THEN "returned" ELSE "rejected"]
          /\ IF ok
             THEN Advance(AppendToolResult(messages, CurrentCall.id,
                                           ResultPayload(ToolOutput(CurrentCall.name))))
             ELSE CatchToolError(CurrentCall.id, ToolFailure)
    /\ UNCHANGED <<app, endpoint, initPc, llm, mainPc, tools, conn, closeCalls, closeVars>>
    /\ UNCHANGED componentVars

\* What the endpoint may answer the current chat() with. A scripted endpoint
\* answers or asks for tools within its budget of calls; an endless one asks
\* for a tool every time (followed here up to one turn past TurnCeiling).
EndpointAnswers ==
    IF endpoint = "endless"
    THEN IF turns <= TurnCeiling
         THEN { [content |-> Thinking, toolCalls |-> EndlessCalls(turns)] }
         ELSE {}
    ELSE { [content |-> a, toolCalls |-> NoCalls] : a \in Answers }
         \cup { [content |-> Thinking, toolCalls |-> l]
                : l \in ToolCallLists(turns, MaxCalls - CountCalls(messages)) }

\* A loop condition that is off by one: a single tool call is not served.
WantsSeveralTools(r) == Len(r.toolCalls) > 1

\* while (response.toolCalls && response.toolCalls.length > 0)
WantsTools(r) == Len(r.toolCalls) > 0

\* llm.chat settles with an answer: it joins the history; executeTask enters
\* the tool loop or returns response.content.
ChatRespond ==
    /\ pc = "chat"
    /\ \E r \in EndpointAnswers :
          /\ messages' = PushAssistant(messages, r)
          /\ response' = r
          /\ IF WantsTools(r)
             THEN /\ pc' = "tools"
                  /\ tcIdx' = 1
                  /\ UNCHANGED <<taskResult, wfVars>>
             ELSE /\ tcIdx' = 0
                  /\ TaskReturns(r.content)
    /\ UNCHANGED <<waitClient, turns, chatFails>>
    /\ UNCHANGED <<app, endpoint, initPc, llm, mainPc, clientVars, closeVars>>
    /\ UNCHANGED componentVars

\* llm.chat rejects: chat rethrows, and so does the catch of executeTask.
ChatFail ==
    /\ pc = "chat"
    /\ endpoint = "scripted"
    /\ chatFails' = chatFails + 1
    /\ TaskThrows(ChatFailure)
    /\ UNCHANGED <<messages, response, tcIdx, waitClient, turns>>
    /\ UNCHANGED <<app, endpoint, initPc, llm, mainPc, clientVars, closeVars>>
    /\ UNCHANGED componentVars

\* executeTask(query, context) up to its first await.
\* res is the results map as the earlier stages left it.
ExecuteTask(res, query, context) ==
    IF ~llm
    THEN /\ TaskThrowsFrom(res, NotInitializedMessage)
         /\ UNCHANGED <<messages, response, tcIdx, waitClient, turns, chatFails>>
    ELSE /\ messages' = PushPrompt(UpdateSystemPrompt(messages, SystemPrompt(context)), query)
         /\ pc' = "chat"
         /\ turns' = 1
         /\ chatFails' = 0
         /\ results' = res
         /\ wfPc' = "tools"
         /\ UNCHANGED <<response, tcIdx, waitClient, taskResult>>

\* ------------------------------------------------------------------ SupervisorAgent.executeWorkflow

\* executeWorkflow(userQuery) up to its first await, knowledgeAgent.checkForChanges().
\* One workflow is run per agent; its caller has awaited init() if it called it.
ExecuteWorkflow ==
    /\ app = "supervisor"
    /\ wfPc = "idle"
    /\ initPc \notin Clients
    /\ wfPc' = "check"
    /\ UNCHANGED <<app, endpoint, initPc, llm, mainPc, clientVars, taskVars, closeVars, results>>
    /\ UNCHANGED componentVars

\* checkAndUpdateKnowledge once checkForChanges settles: no changes are
\* recorded as a success, changes lead to embedKnowledge(), a rejection
\* leaves executeWorkflow through its catch.
CheckForChanges ==
    /\ wfPc = "check"
    /\ \E outcome \in {"changed", "unchanged", "throws"} :
          CASE outcome = "unchanged" ->
                 /\ results' = Append(results, Record("knowledge_check", TRUE, NoResult))
                 /\ wfPc' = "retrieve"
            [] outcome = "changed" ->
                 /\ wfPc' = "embed"
                 /\ UNCHANGED results
            [] outcome = "throws" ->
                 /\ wfPc' = "thrown"
                 /\ UNCHANGED results
    /\ UNCHANGED <<app, endpoint, initPc, llm, mainPc, clientVars, taskVars, closeVars>>
    /\ UNCHANGED componentVars

\* checkAndUpdateKnowledge once embedKnowledge settles: its boolean is the
\* recorded success and the returned knowledgeStatus, which executeWorkflow
\* does not read.
EmbedKnowledge ==
    /\ wfPc = "embed"
    /\ \/ \E embeddingResult \in BOOLEAN :
             /\ results' = Append(results, Record("knowledge_check", embeddingResult, NoResult))
             /\ wfPc' = "retrieve"
       \/ /\ wfPc' = "thrown"
          /\ UNCHANGED results
    /\ UNCHANGED <<app, endpoint, initPc, llm, mainPc, clientVars, taskVars, closeVars>>
    /\ UNCHANGED componentVars

\* retrieveContext once ragAgent.retrieveContext settles, then
\* executeWithTools up to the first await of executeTask.
RetrieveContext ==
    /\ wfPc = "retrieve"
    /\ \/ ExecuteTask(Append(results, Record("rag_query", TRUE, NoResult)), Query, Context)
       \/ /\ results' = Append(results, Record("rag_query", FALSE, <<"retrieval failed">>))
          /\ wfPc' = "thrown"
          /\ UNCHANGED taskVars
    /\ UNCHANGED <<app, endpoint, initPc, llm, mainPc, clientVars, closeVars>>
    /\ UNCHANGED componentVars

\* ------------------------------------------------------------------ init

\* SupervisorAgent.init -> MCPAgent.init up to the first client.init().
SupervisorInit ==
    /\ app = "supervisor"
    /\ initPc = 0
    /\ wfPc \in {"idle", "returned", "thrown"}
    /\ closePc = 0
    /\ initPc' = 1
    /\ UNCHANGED <<app, endpoint, llm, mainPc, clientVars, taskVars, closeVars, wfVars>>
    /\ UNCHANGED componentVars

\* Agent.invoke(prompt) up to its await: a ChatOpenAI without tools is built
\* with the context as a user message, and chat(prompt) pushes the prompt.
Invoke(prompt) ==
    /\ messages' = PushPrompt(PushPrompt(<< >>, Context), prompt)
    /\ turns' = 1
    /\ mainPc' = "invoke_chat"
    /\ UNCHANGED <<pc, response, tcIdx, waitClient, chatFails, taskResult>>

\* client.init() settles: connectToServer connected and cached the tool
\* list, or threw. After the last client the ChatOpenAI is built; in main,
\* agent.invoke(TASK) follows.
InitClient ==
    /\ initPc \in Clients
    /\ \/ /\ tools' = [tools EXCEPT ![initPc] = ClientTools(initPc)]
          /\ conn' = [conn EXCEPT ![initPc] = "Connected"]
          /\ IF initPc < NumClients
             THEN /\ initPc' = initPc + 1
                  /\ UNCHANGED <<llm, mainPc, taskVars>>
             ELSE /\ initPc' = NumClients + 1
                  /\ llm' = TRUE
                  /\ IF app = "mcp"
                     THEN Invoke(Query)
                     ELSE UNCHANGED <<mainPc, taskVars>>
       \/ /\ initPc' = -1
          /\ mainPc' = IF app = "mcp" THEN "crashed" ELSE mainPc
          /\ UNCHANGED <<tools, conn, llm, taskVars>>
    /\ UNCHANGED <<app, endpoint, closeCalls, forwarded, closeVars, wfVars>>
    /\ UNCHANGED componentVars

\* ------------------------------------------------------------------ close

\* MCPClient.close(): await this.mcp.close()
ClientClose(calls, c) == [calls EXCEPT ![c] = @ + 1]

\* Agent.close / MCPAgent.close up to its first await: the loop over the
\* clients calls close() on the first one.
StartClose(by, calls) ==
    /\ closes' = closes + 1
    /\ closeBy' = by
    /\ closePc' = 1
    /\ closeCalls' = ClientClose(calls, 1)

\* The caller closes the supervisor: SupervisorAgent.close -> MCPAgent.close.
SupervisorClose ==
    /\ app = "supervisor"
    /\ closePc = 0
    /\ closes < MaxCloses
    /\ initPc \notin Clients
    /\ StartClose("caller", closeCalls)
    /\ UNCHANGED <<app, endpoint, initPc, llm, mainPc, tools, conn, forwarded, taskVars,
                   lastClose, wfVars>>
    /\ UNCHANGED componentVars

\* The close loop ends: whoever awaited it goes on. Agent.invoke returns the
\* response content and main calls agent.close(); a rejection leaves main.
CloseEnds(ok) ==
    /\ lastClose' = IF ok THEN "ok" ELSE "failed"
    /\ IF closeBy = "invoke" /\ ok
       THEN /\ StartClose("main", closeCalls)
            /\ taskResult' = response.content
            /\ mainPc' = "close"
       ELSE /\ closePc' = 0
            /\ closeBy' = "none"
            /\ UNCHANGED <<closes, closeCalls, taskResult>>
            /\ mainPc' = IF closeBy = "caller" THEN mainPc
                         ELSE IF ok THEN "end" ELSE "crashed"

\* client.close() settles inside the close loop: the loop goes on to the
\* next client, or the rejection leaves the loop.
CloseRespond ==
    /\ closePc \in Clients
    /\ \/ /\ conn' = [conn EXCEPT ![closePc] = IF @ = "Connected" THEN "Closed" ELSE @]
          /\ IF closePc < NumClients
             THEN /\ closePc' = closePc + 1
                  /\ closeCalls' = ClientClose(closeCalls, closePc + 1)
                  /\ UNCHANGED <<closeBy, closes, lastClose, taskResult, mainPc>>
             ELSE CloseEnds(TRUE)
       \/ /\ conn[closePc] = "Connected"
          /\ CloseEnds(FALSE)
          /\ UNCHANGED conn
    /\ UNCHANGED <<app, endpoint, initPc, llm, tools, forwarded, wfVars,
                   messages, pc, response, tcIdx, waitClient, turns, chatFails>>
    /\ UNCHANGED componentVars

\* ------------------------------------------------------------------ main of the mcp program

\* main: agent.init() up to the first client.init().
MainInit ==
    /\ app = "mcp"
    /\ mainPc = "start"
    /\ mainPc' = "init"
    /\ initPc' = 1
    /\ UNCHANGED <<app, endpoint, llm, clientVars, taskVars, closeVars, wfVars>>
    /\ UNCHANGED componentVars

\* noToolsLLM.chat(prompt) settles inside Agent.invoke: the content is kept,
\* no tool call is ever reported, and invoke awaits this.close().
InvokeChatRespond ==
    /\ mainPc = "invoke_chat"
    /\ \/ \E a \in Answers :
             /\ messages' = PushAssistantContent(messages, a)
             /\ response' = [content |-> a, toolCalls |-> NoCalls]
             /\ StartClose("invoke", closeCalls)
             /\ mainPc' = "invoke_close"
             /\ UNCHANGED <<chatFails, lastClose>>
       \/ /\ mainPc' = "crashed"
          /\ chatFails' = chatFails + 1
          /\ UNCHANGED <<messages, response, closeVars, closeCalls>>
    /\ UNCHANGED <<app, endpoint, initPc, llm, tools, conn, forwarded, wfVars,
                   pc, tcIdx, waitClient, turns, taskResult>>
    /\ UNCHANGED componentVars

\* ------------------------------------------------------------------ specification

Next ==
    \/ SupervisorInit
    \/ InitClient
    \/ ExecuteWorkflow
    \/ CheckForChanges
    \/ EmbedKnowledge
    \/ RetrieveContext
    \/ ChatRespond
    \/ ChatFail
    \/ ProcessToolCall
    \/ ToolRespond
    \/ SupervisorClose
    \/ CloseRespond
    \/ MainInit
    \/ InvokeChatRespond

Spec == Init /\ [][Next]_vars

\* ------------------------------------------------------------------ observations

\* Position of the latest assistant message of a history, 0 if there is none.
LastAssistant(msgs) ==
    LET at == { i \in 1..Len(msgs) : msgs[i].role = "assistant" }
    IN  IF at = {} THEN 0 ELSE CHOOSE i \in at : \A j \in at : j <= i

\* The messages that follow the latest assistant message.
SinceLastAssistant(msgs) == SubSeq(msgs, LastAssistant(msgs) + 1, Len(msgs))

Ids(calls) == [i \in 1..Len(calls) |-> calls[i].id]
ToolCallIds(msgs) == [i \in 1..Len(msgs) |-> msgs[i].tool_call_id]

\* Tool-result messages of a history that answer the call id.
ResultsFor(msgs, id) == { i \in 1..Len(msgs) : msgs[i].role = "tool" /\ msgs[i].tool_call_id = id }

ToolMessages(msgs) == { i \in 1..Len(msgs) : msgs[i].role = "tool" }

\* Every tool call requested in a history, as [turn position, call].
RequestedCalls(msgs) ==
    { msgs[i].toolCalls[j] : <<i, j>> \in
        { ij \in (1..Len(msgs)) \X (1..MaxCalls + 1) : ij[2] <= Len(msgs[ij[1]].toolCalls) } }

\* A tool nobody serves: no client lists it.
Unserved(name) == \A c \in Clients : name \notin tools[c]

\* The running task is in its tool loop or waits for the resubmitted chat.
InToolTurn == pc \in {"tools", "tool_wait"} \/ (pc = "chat" /\ turns > 1)

\* ------------------------------------------------------------------ claims

\* C1: when client.callTool rejects, executeTask does not fail: exactly one
\* tool-result message for that call id, carrying the serialized error, is
\* appended; the loop goes on to the next tool call of the turn, and after
\* the last one it resubmits the conversation with chat().
C1_ToolErrorAbsorbed ==
    [][ (pc = "tool_wait" /\ forwarded'[Len(forwarded)].outcome = "rejected") =>
          /\ pc' # "failed"
          /\ wfPc' = "tools"
          /\ messages' = Append(messages, Msg("tool", ErrorPayload(ToolFailure),
                                              response.toolCalls[tcIdx].id, NoCalls))
          /\ response' = response
          /\ IF tcIdx < Len(response.toolCalls)
             THEN pc' = "tools" /\ tcIdx' = tcIdx + 1
             ELSE pc' = "chat" /\ turns' = turns + 1 ]_vars

\* C1 witness: the first of two calls of a turn was rejected, both calls have
\* their results and the conversation has been resubmitted.
C1_Witness ==
    /\ pc = "chat"
    /\ turns = 2
    /\ Len(response.toolCalls) = 2
    /\ Len(forwarded) > 0
    /\ forwarded[1].outcome = "rejected"
    /\ forwarded[1].id = response.toolCalls[1].id
    /\ Len(SinceLastAssistant(messages)) = 2

\* C2: executeTask returns only when the latest response has no tool calls,
\* and what it returns is that response's content, which is also the last
\* message of the history; when the model asked for one tool call in all (a
\* tool some client lists, with well-formed arguments) and then answered,
\* callTool was forwarded exactly once, to the first client listing the
\* tool, and the history holds exactly one tool-result message.
C2_OneCallThenAnswer ==
    /\ (app = "supervisor" /\ pc # "done") => taskResult = NoResult
    /\ pc = "done" =>
          /\ ~WantsTools(response)
          /\ taskResult = response.content
          /\ messages[Len(messages)] = Msg("assistant", taskResult, NoId, NoCalls)
          /\ wfPc = "returned"
          /\ Cardinality(ToolMessages(messages)) = CountCalls(messages)
          /\ \A tc \in RequestedCalls(messages) :
                (CountCalls(messages) = 1 /\ ParseOK(tc.args) /\ ~Unserved(tc.name)) =>
                   /\ Len(forwarded) = 1
                   /\ forwarded[1].name = tc.name
                   /\ forwarded[1].id = tc.id
                   /\ tc.name \in tools[forwarded[1].client]
                   /\ \A c \in Clients : tc.name \in tools[c] => forwarded[1].client <= c

\* C2 witness: one call to a tool both clients list was served, then the
\* model answered and the task returned the answer.
C2_Witness ==
    /\ pc = "done"
    /\ CountCalls(messages) = 1
    /\ Len(forwarded) = 1
    /\ forwarded[1].name = "get_weather"
    /\ forwarded[1].outcome = "returned"
    /\ taskResult \in Answers

\* C3: whenever the conversation has been resubmitted with chat(), every
\* tool call of the preceding turn has exactly one tool-result message, these
\* are all the messages that follow the assistant message, and no forwarded
\* call is still pending.
C3_ResultsBeforeResubmit ==
    (pc = "chat" /\ turns > 1) =>
        /\ \A i \in 1..Len(response.toolCalls) :
              Cardinality(ResultsFor(SinceLastAssistant(messages), response.toolCalls[i].id)) = 1
        /\ Len(SinceLastAssistant(messages)) = Len(response.toolCalls)
        /\ \A i \in 1..Len(SinceLastAssistant(messages)) :
              SinceLastAssistant(messages)[i].role = "tool"
        /\ \A i \in 1..Len(forwarded) : forwarded[i].outcome # "pending"
        /\ \A tc \in RequestedCalls(messages) : Cardinality(ResultsFor(messages, tc.id)) = 1

\* C3 witness: a turn of two calls, one failing before it was forwarded and
\* one served, has been resubmitted.
C3_Witness ==
    /\ pc = "chat"
    /\ turns > 1
    /\ Len(response.toolCalls) = 2
    /\ Len(forwarded) = 1
    /\ forwarded[1].outcome = "returned"

\* C4: the tool-result messages of a turn are appended in the order of the
\* tool calls in the model response: at every moment of the turn they answer
\* a prefix of the requested calls, and all of them at resubmission.
C4_ResultsInRequestOrder ==
    InToolTurn =>
        LET done == SinceLastAssistant(messages)
            expected == IF pc = "chat" THEN Len(response.toolCalls) ELSE tcIdx - 1
        IN  /\ Len(done) = expected
            /\ ToolCallIds(done) = SubSeq(Ids(response.toolCalls), 1, expected)

\* C4 witness: both results of a two-call turn are in the history, the first
\* an error and the second a tool output.
C4_Witness ==
    /\ pc = "chat"
    /\ turns > 1
    /\ Len(response.toolCalls) = 2
    /\ LET done == SinceLastAssistant(messages)
       IN  /\ Len(done) = 2
           /\ done[1].content[1] = "error"
           /\ done[2].content[1] = "result"

\* C5: the chat/tool loop has a hard ceiling on the number of model turns:
\* executeTask never makes more than TurnCeiling chat() calls, however often
\* the endpoint asks for tools.
C5_TurnCeiling == turns <= TurnCeiling

\* C6: a failed chat call is retried: executeTask fails on the chat channel
\* only after more than one chat call has failed.
C6_ChatRetried == (pc = "failed" /\ chatFails > 0) => chatFails > 1

\* C7: a workflow run ends by returning the answer or by throwing, and it
\* returns an answer only when no stage recorded a failure.
C7_AnswerOnlyWithoutFailure ==
    /\ wfPc = "returned" => pc = "done" /\ taskResult \in Answers
    /\ wfPc = "returned" => \A i \in 1..Len(results) : results[i].success

\* The task was not aborted by a tool call: it fails only on the chat channel
\* or for want of initialization.
FailedOnlyOutsideTools ==
    pc = "failed" =>
        results[Len(results)].error \in {ChatFailure, NotInitializedMessage}

\* C8 as claimed: a call to a tool no client lists is forwarded to no client,
\* gets one tool-result message naming the missing tool, and does not abort
\* the task.
C8_MissingToolNamed ==
    /\ FailedOnlyOutsideTools
    /\ \A tc \in RequestedCalls(messages) :
          Unserved(tc.name) =>
             /\ \A i \in 1..Len(forwarded) : forwarded[i].id # tc.id
             /\ \A i \in ResultsFor(messages, tc.id) :
                   messages[i].content = ErrorPayload(NotFoundMessage(tc.name))
             /\ (pc \in {"chat", "done"} /\ turns > 1) =>
                   Cardinality(ResultsFor(messages, tc.id)) = 1

\* C8 amended: a call to a tool no client lists is forwarded to no client,
\* gets one tool-result message carrying an error, and does not abort the
\* task; the error names the missing tool when the arguments of the call are
\* well-formed JSON, and is the parse error otherwise.
C8_MissingToolReported ==
    /\ FailedOnlyOutsideTools
    /\ \A tc \in RequestedCalls(messages) :
          Unserved(tc.name) =>
             /\ \A i \in 1..Len(forwarded) : forwarded[i].id # tc.id
             /\ \A i \in ResultsFor(messages, tc.id) :
                   messages[i].content =
                      IF ParseOK(tc.args) THEN ErrorPayload(NotFoundMessage(tc.name))
                                          ELSE ErrorPayload(SyntaxErrorMessage)
             /\ (pc \in {"chat", "done"} /\ turns > 1) =>
                   Cardinality(ResultsFor(messages, tc.id)) = 1

\* C8 witness: the error naming the missing tool is in the history and the
\* conversation has been resubmitted.
C8_Witness ==
    /\ pc = "chat"
    /\ turns > 1
    /\ endpoint = "scripted"
    /\ forwarded = << >>
    /\ \E i \in 1..Len(messages) :
          /\ messages[i].role = "tool"
          /\ messages[i].content = ErrorPayload(NotFoundMessage("no_such_tool"))

\* C9: a client that has been closed is not closed again: a second close()
\* of the agent invokes no further close on a tool client.
C9_SecondCloseNoOp == \A c \in Clients : conn[c] = "Closed" => closeCalls[c] <= 1

\* C10: once a close() of the agent has ended, close() has been invoked on
\* every tool client, also when the close of one client failed.
C10_CloseReachesAll ==
    (closes > 0 /\ closePc = 0) => \A c \in Clients : closeCalls[c] >= 1

\* C11: a tool call is forwarded only to a client that is connected, and a
\* task is taken up (the model is called) only by an agent that has been
\* initialized and has not been closed.
C11_NotReadyRejected ==
    [][ /\ Len(forwarded') > Len(forwarded) =>
              conn[forwarded'[Len(forwarded')].client] = "Connected"
        /\ (wfPc = "retrieve" /\ pc' = "chat") =>
              (llm /\ ~(closePc = 0 /\ lastClose = "ok")) ]_vars

\* The steps the agent takes by itself are taken; an answer of the model
\* endpoint or of a tool server may never come.
SpecLive == Spec /\ WF_vars(ProcessToolCall)

\* C12: a task that waits for the model or for a tool eventually ends,
\* returned or failed, also when the awaited answer never comes.
C12_TaskEnds ==
    (endpoint = "scripted" /\ pc \in {"chat", "tool_wait"}) ~> (pc \in {"done", "failed"})

\* ------------------------------------------------------------------ numbers

\* A number of the program is an exact fraction <<numerator, denominator>>
\* in lowest terms with a positive denominator; <<0, 0>> is NaN.
NaN == <<0, 0>>
Num(n) == <<n, 1>>
IsNaN(x) == x[2] = 0

Abs(n) == IF n < 0 THEN -n ELSE n

RECURSIVE Gcd(_, _)
Gcd(a, b) == IF b = 0 THEN a ELSE Gcd(b, a % b)

\* The fraction n / d, d > 0, in lowest terms.
Frac(n, d) == LET g == Gcd(Abs(n), d) IN <<n \div g, d \div g>>

\* a + b
Plus(a, b) ==
    IF IsNaN(a) \/ IsNaN(b) THEN NaN
    ELSE Frac(a[1] * b[2] + b[1] * a[2], a[2] * b[2])

\* a * b
Times(a, b) ==
    IF IsNaN(a) \/ IsNaN(b) THEN NaN
    ELSE Frac(a[1] * b[1], a[2] * b[2])

\* a / b: 0 / 0 is NaN, and so is anything with NaN in it; x / 0 for another
\* x is an infinity, written <<1, 0>> or <<-1, 0>> and never computed with.
Over(a, b) ==
    IF IsNaN(a) \/ IsNaN(b) THEN NaN
    ELSE IF b[1] = 0 THEN <<IF a[1] > 0 THEN 1 ELSE IF a[1] < 0 THEN -1 ELSE 0, 0>>
    ELSE IF b[1] > 0 THEN Frac(a[1] * b[2], a[2] * b[1])
    ELSE Frac(-(a[1] * b[2]), a[2] * (-b[1]))

\* a < b, for numbers that are not NaN
Less(a, b) == a[1] * b[2] < b[1] * a[2]

\* x || 0
OrZero(x) == IF IsNaN(x) \/ x[1] = 0 THEN Num(0) ELSE x

\* f(lo) + ... + f(hi) over a sequence of numbers, 0 for an empty range.
RECURSIVE SumRange(_, _, _)
SumRange(f, lo, hi) ==
    IF lo > hi THEN Num(0)
    ELSE IF lo = hi THEN f[lo]
    ELSE LET mid == (lo + hi) \div 2
         IN  Plus(SumRange(f, lo, mid), SumRange(f, mid + 1, hi))

\* vector.reduce((sum, val) => sum + val * val, 0)
SumSquares(v) == SumRange([i \in 1..Len(v) |-> Times(v[i], v[i])], 1, Len(v))

HasNaN(v) == \E i \in 1..Len(v) : IsNaN(v[i])

\* ------------------------------------------------------------------ vectors

\* A vector is [period, len, normalized]: len components that repeat the
\* sequence period (a vector written out in full is its own period). When
\* normalized is TRUE the components stand divided by their Euclidean norm,
\* an irrational number as a rule, so that the division is kept symbolic.
Raw(comps) == [period |-> comps, len |-> Len(comps), normalized |-> FALSE]
Dim(v) == v.len

\* v[i], 1-based
Comp(v, i) == v.period[((i - 1) % Len(v.period)) + 1]

\* The components written out.
Comps(v) == [i \in 1..v.len |-> Comp(v, i)]

\* The vector of n components that repeats the numbers of a pattern.
Repeated(pattern, n) ==
    [period |-> [i \in 1..(IF n < Len(pattern) THEN n ELSE Len(pattern)) |-> pattern[i]],
     len |-> n, normalized |-> FALSE]

\* The same for a pattern of integers.
Repeat(pattern, n) == Repeated([i \in 1..Len(pattern) |-> Num(pattern[i])], n)

\* The Euclidean norm of the vector is 1.
IsUnit(v) ==
    /\ ~HasNaN(Comps(v))
    /\ v.normalized \/ SumSquares(Comps(v)) = Num(1)

\* ------------------------------------------------------------------ EmbeddingRetriever

\* Records the store may hold at most (the embedDocument calls made).
MaxDocs == 2

\* private readonly targetDimension: number = 384
targetDimension == 384

\* Array(1536) of the fallback of the retriever without resizing.
OpenSearchMockLength == 1536

\* Array(10) of the fallback of the Bedrock retriever.
BedrockMockLength == 10

\* The documents of the knowledge directory, embedded one after the other.
Knowledge == <<"a", "b", "c", "d">>
QueryText == "q"
TopKs == {1, 3}

\* Values Math.random() is followed through, two draws of [0, 1) at a time:
\* the vectors built repeat the two draws.
RandomDraws == { <<Num(0), <<1, 2>>>>, <<<<1, 2>>, <<1, 2>>>> }

\* Math.random() * 2 - 1
Signed(r) == Plus(Times(r, Num(2)), Num(-1))
Unsigned(r) == r

\* Array(n).fill(0).map(() => Math.random() * 2 - 1) when signed,
\* Array(n).fill(0).map(() => Math.random()) when not.
RandomVectors(n, signed) ==
    { Repeated(IF signed THEN <<Signed(p[1]), Signed(p[2])>>
                         ELSE <<Unsigned(p[1]), Unsigned(p[2])>>, n) : p \in RandomDraws }

\* A fallback of the length of the mock of another retriever.
generateMockEmbedding == RandomVectors(BedrockMockLength, TRUE)

\* generateRandomEmbedding()
generateRandomEmbedding == RandomVectors(targetDimension, TRUE)

\* Array(1536).fill(0).map(() => Math.random())
OpenSearchMocks == RandomVectors(OpenSearchMockLength, FALSE)

\* Array(10).fill(0).map(() => Math.random())
BedrockMocks == RandomVectors(BedrockMockLength, FALSE)

\* normalizeVector(vector): every component over the magnitude; a magnitude
\* of 0 or NaN leaves NaN in every component.
normalizeVector(comps) ==
    IF HasNaN(comps) \/ SumSquares(comps) = Num(0)
    THEN Repeated(<<NaN>>, Len(comps))
    ELSE [period |-> comps, len |-> Len(comps), normalized |-> TRUE]

\* The block of input positions (0-based, end excluded) averaged into the
\* component i (0-based) of the result.
BlockStart(i, len) == (i * len) \div targetDimension
BlockEnd(i, len) == ((i + 1) * len) \div targetDimension

\* A resize without the early return: every input is averaged by blocks
\* and normalized.
resizeAlways(embedding) ==
    LET len == Dim(embedding)
        padded == [j \in 1..len |-> OrZero(Comp(embedding, j))]
        result == [i \in 1..targetDimension |->
                     LET start == BlockStart(i - 1, len)
                         end == BlockEnd(i - 1, len)
                     IN  Over(SumRange(padded, start + 1, end), Num(end - start))]
    IN  normalizeVector(result)

\* resizeEmbedding(embedding)
resizeEmbedding(embedding) ==
    IF Dim(embedding) = targetDimension
    THEN embedding
    ELSE LET len == Dim(embedding)
             padded == [j \in 1..len |-> OrZero(Comp(embedding, j))]
             result == [i \in 1..targetDimension |->
                          LET start == BlockStart(i - 1, len)
                              end == BlockEnd(i - 1, len)
                          IN  Over(SumRange(padded, start + 1, end), Num(end - start))]
         IN  normalizeVector(result)

\* What the embedding endpoint does with a request: it cannot be reached,
\* answers with a status that is not 2xx, answers with a body that holds no
\* embedding, or answers with an embedding.
Failures == {"unreachable", "status", "invalid"}

\* Embeddings an endpoint answers with: short ones of several shapes for the
\* retriever whose store ranks them itself, long ones of several lengths for
\* the retriever that resizes them, one of the length of the model for the
\* third.
ShortEmbeddings ==
    { Repeat(p, Len(p)) : p \in {<<1>>, <<1, 0>>, <<0, 1>>, <<1, 1>>, <<-1, 0>>, <<0, 0>>} }
LongEmbeddings ==
    { Repeat(<<1>>, 2), Repeat(<<1>>, targetDimension),
      Repeat(<<1>>, 2 * targetDimension), Repeat(<<1, -1>>, 2 * targetDimension) }
ModelEmbeddings == { Repeat(<<1>>, targetDimension) }

\* resizeEmbedding of each of the long embeddings.
Resized == [e \in LongEmbeddings |-> resizeEmbedding(e)]

EndpointEmbeddings ==
    CASE variant = "bedrock" -> ShortEmbeddings
      [] variant = "resize" -> LongEmbeddings
      [] variant = "opensearch" -> ModelEmbeddings
FetchOutcomes ==
    { [kind |-> f] : f \in Failures }
       \cup { [kind |-> "ok", embedding |-> e] : e \in EndpointEmbeddings }

\* embed(document) once the endpoint has settled: the vectors it may return.
\* Every failure ends in the fallback vector of the variant.
embed(outcome) ==
    CASE variant = "resize" ->
           IF outcome.kind \in Failures THEN generateRandomEmbedding
           ELSE {Resized[outcome.embedding]}
      [] variant = "opensearch" ->
           IF outcome.kind \in Failures THEN OpenSearchMocks
           ELSE {outcome.embedding}
      [] variant = "bedrock" ->
           IF outcome.kind \in Failures THEN BedrockMocks
           ELSE {outcome.embedding}

\* ------------------------------------------------------------------ VectorStore (in memory)

\* undefined * a is NaN: a query longer than the stored vector.
At(v, idx) == IF idx <= Len(v) THEN v[idx] ELSE NaN

\* A similarity is NaN or a number of [-1, 1], kept as its sign and its
\* square: the norms are square roots.
NaNScore == [nan |-> TRUE, sign |-> 0, square |-> Num(0)]

Sgn(n) == IF n > 0 THEN 1 ELSE IF n < 0 THEN -1 ELSE 0

\* cosineSimilarity(vecA, vecB) == dotProduct / (normA * normB)
cosineSimilarity(vecA, vecB) ==
    LET dotProduct == SumRange([idx \in 1..Len(vecA) |-> Times(vecA[idx], At(vecB, idx))],
                               1, Len(vecA))
        norms2 == Times(SumSquares(vecA), SumSquares(vecB))
    IN  IF IsNaN(dotProduct) \/ IsNaN(norms2) \/ norms2[1] = 0
        THEN NaNScore
        ELSE [nan |-> FALSE, sign |-> Sgn(dotProduct[1]),
              square |-> Over(Times(dotProduct, dotProduct), norms2)]

\* s < t, for similarities that are not NaN
ScoreLess(s, t) ==
    IF s.sign # t.sign THEN s.sign < t.sign
    ELSE IF s.sign = 1 THEN Less(s.square, t.square)
    ELSE IF s.sign = -1 THEN Less(t.square, s.square)
    ELSE FALSE

Perms(n) == { p \in [1..n -> 1..n] : \A i, j \in 1..n : p[i] = p[j] => i = j }

\* The order before a sort from the highest score down.
StableDescending(scored, p) ==
    \A i, j \in 1..Len(scored) :
       i < j => /\ ~ScoreLess(scored[p[i]].score, scored[p[j]].score)
                /\ ScoreLess(scored[p[j]].score, scored[p[i]].score) \/ p[i] < p[j]

\* scored.sort((a, b) => b.score - a.score): a stable sort from the highest
\* score down. A comparator that returns NaN is not a consistent one, and
\* the order the sort leaves is then up to the implementation.
SortOrders(scored) ==
    IF Len(scored) > 1 /\ \E i \in 1..Len(scored) : scored[i].score.nan
    THEN Perms(Len(scored))
    ELSE { p \in Perms(Len(scored)) : StableDescending(scored, p) }

\* this.vectorStore.map((item) => ({ document, score })): a new array.
Scored(records, queryEmbedding) ==
    [i \in 1..Len(records) |->
        [document |-> records[i].document,
         score |-> cosineSimilarity(Comps(queryEmbedding), Comps(records[i].embedding))]]

\* VectorStore.search(queryEmbedding, topK): the lists it may return.
search(records, queryEmbedding, topK) ==
    LET scored == Scored(records, queryEmbedding)
        n == IF topK < Len(scored) THEN topK ELSE Len(scored)
    IN  { [i \in 1..n |-> scored[p[i]].document] : p \in SortOrders(scored) }

\* VectorStore.addEmbedding(embedding, document)
addEmbedding(records, embedding, document) ==
    Append(records, [embedding |-> embedding, document |-> document])

\* ------------------------------------------------------------------ the retriever at work

agentVars == <<app, endpoint, initPc, llm, mainPc, clientVars, taskVars, closeVars, wfVars>>

Returned(kind, value) == [kind |-> kind, value |-> value]

\* An operation as called: how its fetch settled and the embedding of its
\* query are filled in as it runs.
NoVector == Raw(<< >>)
Call(op, text, topK) ==
    [op |-> op, text |-> text, topK |-> topK, fetched |-> "none", queryEmbedding |-> NoVector]
Without(s, i) == SubSeq(s, 1, i - 1) \o SubSeq(s, i + 1, Len(s))

\* The caller calls embedDocument(document) with the next document, one
\* operation at a time. The operation stands at its fetch.
EmbedDocument ==
    /\ variant # "none"
    /\ rpc = "idle"
    /\ Len(store) + Len(inflight) < MaxDocs
    /\ call' = Call("embedDocument", Knowledge[Len(store) + Len(inflight) + 1], 0)
    /\ rpc' = "fetch"
    /\ ret' = NoReturn
    /\ UNCHANGED <<variant, indexPc, store, inflight, agentVars, chatVars>>

\* The caller calls embedQuery(query).
EmbedQuery ==
    /\ variant # "none"
    /\ rpc = "idle"
    /\ call' = Call("embedQuery", QueryText, 0)
    /\ rpc' = "fetch"
    /\ ret' = NoReturn
    /\ UNCHANGED <<variant, indexPc, store, inflight, agentVars, chatVars>>

\* The caller calls retrieve(query, topK).
Retrieve ==
    /\ variant # "none"
    /\ rpc = "idle"
    /\ \E topK \in TopKs : call' = Call("retrieve", QueryText, topK)
    /\ rpc' = "fetch"
    /\ ret' = NoReturn
    /\ UNCHANGED <<variant, indexPc, store, inflight, agentVars, chatVars>>

\* embedDocument after embed(): the in-memory store pushes the record at
\* once; the index request to the search backend is awaited by the resizing
\* retriever and left behind by the other one, which returns.
AfterEmbedDocument(embedding) ==
    LET record == [embedding |-> embedding, document |-> call.text]
    IN  CASE variant = "bedrock" ->
               /\ store' = addEmbedding(store, embedding, call.text)
               /\ ret' = Returned("vector", embedding)
               /\ rpc' = "idle"
               /\ UNCHANGED inflight
          [] variant = "opensearch" ->
               /\ inflight' = Append(inflight, record)
               /\ ret' = Returned("vector", embedding)
               /\ rpc' = "idle"
               /\ UNCHANGED store
          [] variant = "resize" ->
               /\ inflight' = Append(inflight, record)
               /\ rpc' = "add"
               /\ UNCHANGED <<store, ret>>

\* A search that sorts the records of the store themselves.
AfterEmbedQuerySorting(embedding) ==
    /\ \E p \in SortOrders(Scored(store, embedding)) :
          /\ store' = [i \in 1..Len(store) |-> store[p[i]]]
          /\ ret' = Returned("texts", [i \in 1..Len(store) |-> store[p[i]].document])
    /\ rpc' = "idle"
    /\ UNCHANGED inflight

\* retrieve after embedQuery(): the in-memory store ranks at once, the
\* search backend is asked.
AfterEmbedQuery(embedding) ==
    /\ IF variant = "bedrock"
       THEN /\ \E texts \in search(store, embedding, call.topK) :
                  ret' = Returned("texts", texts)
            /\ rpc' = "idle"
       ELSE /\ rpc' = "search"
            /\ UNCHANGED ret
    /\ UNCHANGED <<store, inflight>>

\* The fetch of embed() settles, with an embedding or with a failure.
FetchRespond ==
    /\ rpc = "fetch"
    /\ \E outcome \in FetchOutcomes : \E embedding \in embed(outcome) :
          /\ call' = [call EXCEPT !.fetched = outcome.kind,
                                  !.queryEmbedding = IF call.op = "embedDocument"
                                                     THEN @ ELSE embedding]
          /\ CASE call.op = "embedDocument" -> AfterEmbedDocument(embedding)
               [] call.op = "embedQuery" ->
                    /\ ret' = Returned("vector", embedding)
                    /\ rpc' = "idle"
                    /\ UNCHANGED <<store, inflight>>
               [] call.op = "retrieve" -> AfterEmbedQuery(embedding)
    /\ UNCHANGED <<variant, indexPc, agentVars, chatVars>>

\* OpenSearchVectorStore.addEmbedding: client.index settles. The record is
\* in the index, or the error is logged and nothing else happens. The
\* embedDocument that awaits it returns the embedding.
IndexRespond ==
    /\ inflight # << >>
    /\ \E i \in 1..Len(inflight), indexed \in BOOLEAN :
          /\ store' = IF indexed THEN Append(store, inflight[i]) ELSE store
          /\ inflight' = Without(inflight, i)
          /\ IF rpc = "add"
             THEN /\ ret' = Returned("vector", inflight[i].embedding)
                  /\ rpc' = "idle"
             ELSE UNCHANGED <<ret, rpc>>
    /\ UNCHANGED <<variant, indexPc, call, agentVars, chatVars>>

\* The hits the search backend may answer with: documents of distinct
\* records of the index, ranked as the backend sees fit.
BackendHits(records, topK) ==
    LET n == IF topK < Len(records) THEN topK ELSE Len(records)
    IN  { [i \in 1..n |-> records[p[i]].document] : p \in Perms(Len(records)) }

\* OpenSearchVectorStore.search: client.search settles; an error is logged
\* and the result is empty.
SearchRespond ==
    /\ rpc = "search"
    /\ \E texts \in BackendHits(store, call.topK) \cup {<< >>} :
          ret' = Returned("texts", texts)
    /\ rpc' = "idle"
    /\ UNCHANGED <<variant, indexPc, store, inflight, call, agentVars, chatVars>>

\* initIndex(): indices.exists settles. An index that is there ends the
\* initialization, a missing one is created, an error is logged.
IndexExistsRespond ==
    /\ indexPc = "exists"
    /\ \E outcome \in {"present", "absent", "error"} :
          indexPc' = IF outcome = "absent" THEN "create" ELSE "over"
    /\ UNCHANGED <<variant, store, inflight, rpc, call, ret, agentVars, chatVars>>

\* initIndex(): indices.create settles, with the index created or with an
\* error that is logged.
IndexCreateRespond ==
    /\ indexPc = "create"
    /\ indexPc' = "over"
    /\ UNCHANGED <<variant, store, inflight, rpc, call, ret, agentVars, chatVars>>

\* new EmbeddingRetriever(): the constructor of the remote store has called
\* initIndex() and has not awaited it; the in-memory store has nothing to
\* initialize.
RetrieverInit ==
    /\ app = "retriever"
    /\ endpoint = "scripted"
    /\ AgentFields
    /\ variant \in {"resize", "opensearch", "bedrock"}
    /\ indexPc = IF variant = "bedrock" THEN "none" ELSE "exists"
    /\ RetrieverFields
    /\ ChatFields

RetrieverNext ==
    \/ EmbedDocument
    \/ EmbedQuery
    \/ Retrieve
    \/ FetchRespond
    \/ IndexRespond
    \/ SearchRespond
    \/ IndexExistsRespond
    \/ IndexCreateRespond

SpecRetriever == RetrieverInit /\ [][RetrieverNext]_vars

\* ------------------------------------------------------------------ claims on retrieval

\* A retrieve of the in-memory store has returned its texts.
Retrieved == variant = "bedrock" /\ call.op = "retrieve" /\ ret.kind = "texts"

\* The cosine similarity the ranking is specified by: the one the store
\* computes, and 0 where a norm is zero.
Similarity(vecA, vecB) ==
    LET s == cosineSimilarity(vecA, vecB)
    IN  IF s.nan THEN [nan |-> FALSE, sign |-> 0, square |-> Num(0)] ELSE s

\* The texts of the records from the most similar to the query down, texts
\* of equal similarity in insertion order.
Ranking(records, queryEmbedding) ==
    LET scored == [i \in 1..Len(records) |->
                     [score |-> Similarity(Comps(queryEmbedding), Comps(records[i].embedding))]]
        p == CHOOSE q \in Perms(Len(records)) : StableDescending(scored, q)
    IN  [i \in 1..Len(records) |-> records[p[i]].document]

\* The query and every stored vector have one length.
OneLength(records, queryEmbedding) ==
    \A i \in 1..Len(records) : Dim(records[i].embedding) = Dim(queryEmbedding)

\* C13: a search with topK not below the size of the store returns the text
\* of every record once, from the most similar to the query down, texts of
\* equal similarity in insertion order (vectors of one length).
C13_SearchRanksAll ==
    (Retrieved /\ call.topK >= Len(store) /\ OneLength(store, call.queryEmbedding))
       => ret.value = Ranking(store, call.queryEmbedding)

\* embedDocument or embedQuery is over: the caller has its promise settled.
EmbedOver == rpc = "idle" /\ call.op \in {"embedDocument", "embedQuery"}

C15_StoredOfOneLength ==
    \A i, j \in 1..Len(store) :
       /\ Dim(store[i].embedding) = Dim(store[j].embedding)
       /\ variant = "resize" => Dim(store[i].embedding) = targetDimension

\* ------------------------------------------------------------------ resizeEmbedding on its own

\* The embeddings resizeEmbedding is applied to: patterns of one or two
\* values repeated to lengths below, at and above the target dimension, and
\* a unit vector of the target dimension.
ResizePatterns ==
    LET values == {-1, 0, 1, 2}
    IN  { <<a>> : a \in values } \cup { <<a, b>> : a \in values, b \in values }
ResizeLengths ==
    {1, 2, 3, targetDimension - 1, targetDimension, targetDimension + 1,
     2 * targetDimension, 1000, OpenSearchMockLength}
ResizeInputs ==
    { Repeat(p, n) : p \in ResizePatterns, n \in ResizeLengths }
       \cup { Raw([i \in 1..targetDimension |-> Num(IF i = 1 THEN 1 ELSE 0)]) }

ResizeInit ==
    /\ app = "resizeEmbedding"
    /\ endpoint = "scripted"
    /\ AgentFields
    /\ variant = "resize"
    /\ indexPc = "none"
    /\ store = << >>
    /\ inflight = << >>
    /\ rpc = "idle"
    /\ \E embedding \in ResizeInputs : call = [op |-> "resizeEmbedding", embedding |-> embedding]
    /\ ret = NoReturn
    /\ ChatFields

\* resizeEmbedding(embedding) is applied and returns.
ResizeEmbedding ==
    /\ call.op = "resizeEmbedding"
    /\ ret = NoReturn
    /\ ret' = Returned("vector", resizeEmbedding(call.embedding))
    /\ UNCHANGED <<variant, indexPc, store, inflight, rpc, call, agentVars, chatVars>>

SpecResize == ResizeInit /\ [][ResizeEmbedding]_vars

\* resizeEmbedding has returned.
Resizing == call.op = "resizeEmbedding" /\ ret.kind = "vector"

\* C16: resizeEmbedding of an embedding that is not empty has
\* targetDimension components and the Euclidean norm 1.
C16_ResizedIsUnit ==
    (Resizing /\ Dim(call.embedding) > 0)
       => (Dim(ret.value) = targetDimension /\ IsUnit(ret.value))

\* C17: resizeEmbedding returns an embedding of targetDimension components
\* as it is, so resizing what a resize returned changes nothing.
C17_ResizeKeepsTargetLength ==
    Resizing =>
       /\ Dim(call.embedding) = targetDimension => ret.value = call.embedding
       /\ resizeEmbedding(ret.value) = ret.value

\* C17 witness: an embedding of targetDimension components whose norm is not
\* 1 has been resized.
C17_Witness ==
    /\ Resizing
    /\ Dim(call.embedding) = targetDimension
    /\ ~IsUnit(call.embedding)
    /\ ret.value = call.embedding

\* ------------------------------------------------------------------ claims on storing

\* embedDocument has returned its vector to the caller.
DocumentEmbedded == rpc = "idle" /\ call.op = "embedDocument" /\ ret.kind = "vector"

\* C18: when embedDocument has returned, the store holds the record of the
\* document, and the vector of the record is the one returned.
C18_StoredOnReturn ==
    DocumentEmbedded =>
       \E i \in 1..Len(store) :
          store[i] = [embedding |-> ret.value, document |-> call.text]

\* C19: the records of the store change only by embedDocument, which
\* appends one record, that of its document and of the vector it returns
\* (with the search backend: of an index request it sent); embedQuery,
\* retrieve and the search inside it leave the records as they are. With
\* the in-memory store every embedDocument appends its record.
C19_OnlyEmbedDocumentStores ==
    [][ /\ store' # store =>
              /\ Len(store') = Len(store) + 1
              /\ SubSeq(store', 1, Len(store)) = store
              /\ IF variant = "bedrock"
                 THEN /\ call.op = "embedDocument"
                      /\ ret'.kind = "vector"
                      /\ store'[Len(store')] = [embedding |-> ret'.value, document |-> call.text]
                 ELSE \E i \in 1..Len(inflight) : inflight[i] = store'[Len(store')]
        /\ (variant = "bedrock" /\ call.op = "embedDocument" /\ rpc = "fetch" /\ rpc' = "idle")
              => Len(store') = Len(store) + 1 ]_vars

\* C19 witness: a search has ranked the second record before the first, and
\* the store holds the two in insertion order, after an embedQuery and this
\* retrieve.
C19_Witness ==
    /\ Retrieved
    /\ Len(store) = 2
    /\ store[1].document = "a"
    /\ store[2].document = "b"
    /\ ret.value = <<"b", "a">>
    /\ ~Scored(store, call.queryEmbedding)[1].score.nan
    /\ ~Scored(store, call.queryEmbedding)[2].score.nan

\* ------------------------------------------------------------------ ChatOpenAI on its own

\* chat() calls made on the conversation exercised on its own.
MaxChats == 2

\* The model name the conversation is constructed with.
ModelName == "model"

\* Tools as listTools() describes them.
WeatherTool == [name |-> "get_weather", description |-> "weather", inputSchema |-> "{city}"]
FileTool == [name |-> "write_file", description |-> "write", inputSchema |-> "{path}"]

\* The tool lists a conversation may be constructed with; the default is empty.
ToolLists == { << >>, <<WeatherTool>>, <<WeatherTool, FileTool>> }

\* getToolsDefinition(): one function definition for each tool of this.tools.
getToolsDefinition(ts) ==
    [i \in 1..Len(ts) |->
        [type |-> "function",
         function |-> [name |-> ts[i].name, description |-> ts[i].description,
                       parameters |-> ts[i].inputSchema]]]

\* The request options chat() builds: the model, the history, no streaming.
requestOptions(msgs) ==
    [model |-> ModelName, messages |-> msgs, stream |-> FALSE]

\* The tool-role messages of a history.
ToolResults(msgs) == SelectSeq(msgs, LAMBDA m : m.role = "tool")

\* new ChatOpenAI(model, systemPrompt, tools, context): a system prompt that
\* is not empty opens the history, a context that is not empty follows it as
\* a user message.
ChatInit ==
    /\ app = "chat"
    /\ endpoint = "scripted"
    /\ \E systemPrompt \in {NoResult, SystemPrompt(NoResult)}, context \in {NoResult, Context} :
          /\ tools = [c \in Clients |-> {}]
          /\ conn = [c \in Clients |-> "Uninitialized"]
          /\ closeCalls = [c \in Clients |-> 0]
          /\ forwarded = << >>
          /\ initPc = 0
          /\ llm = TRUE
          /\ messages = PushPrompt(IF systemPrompt # NoResult
                                   THEN <<Msg("system", systemPrompt, NoId, NoCalls)>>
                                   ELSE << >>, context)
          /\ pc = "idle"
          /\ response = NoResponse
          /\ tcIdx = 0
          /\ waitClient = 0
          /\ turns = 0
          /\ chatFails = 0
          /\ taskResult = NoResult
          /\ closePc = 0
          /\ closeBy = "none"
          /\ closes = 0
          /\ lastClose = "none"
          /\ wfPc = "idle"
          /\ results = << >>
          /\ mainPc = "start"
    /\ chatTools \in ToolLists
    /\ request = NoRequest
    /\ variant = "none"
    /\ indexPc = "none"
    /\ RetrieverFields

\* chat(prompt) up to its await: the prompt, when there is one, is pushed and
\* the request is sent.
Chat ==
    /\ pc = "idle"
    /\ turns < MaxChats
    /\ \E prompt \in {NoResult, Query} :
          /\ messages' = PushPrompt(messages, prompt)
          /\ request' = requestOptions(messages')
          /\ call' = [op |-> "chat", prompt |-> prompt]
    /\ ret' = NoReturn
    /\ pc' = "chat"
    /\ turns' = turns + 1
    /\ UNCHANGED <<app, endpoint, initPc, llm, mainPc, clientVars, closeVars, wfVars>>
    /\ UNCHANGED <<response, tcIdx, waitClient, chatFails, taskResult, chatTools>>
    /\ UNCHANGED <<variant, indexPc, store, inflight, rpc>>

\* The completion arrives: its content, or "" when it has none, is pushed as
\* the assistant's message and returned with no tool calls.
ChatCompletes ==
    /\ app = "chat"
    /\ pc = "chat"
    /\ \E content \in Answers \cup {NoResult} :
          /\ messages' = PushAssistantContent(messages, content)
          /\ response' = [content |-> content, toolCalls |-> NoCalls]
    /\ ret' = Returned("response", response')
    /\ pc' = "idle"
    /\ UNCHANGED <<app, endpoint, initPc, llm, mainPc, clientVars, closeVars, wfVars>>
    /\ UNCHANGED <<tcIdx, waitClient, turns, chatFails, taskResult, chatVars>>
    /\ UNCHANGED <<variant, indexPc, store, inflight, rpc, call>>

\* The request fails: chat() logs the error and throws it again.
ChatRejects ==
    /\ app = "chat"
    /\ pc = "chat"
    /\ pc' = "idle"
    /\ chatFails' = chatFails + 1
    /\ ret' = [kind |-> "thrown"]
    /\ UNCHANGED <<app, endpoint, initPc, llm, mainPc, clientVars, closeVars, wfVars>>
    /\ UNCHANGED <<messages, response, tcIdx, waitClient, turns, taskResult, chatVars>>
    /\ UNCHANGED <<variant, indexPc, store, inflight, rpc, call>>

\* appendToolResult(toolCallId, toolOutput), whenever its caller runs.
AppendToolResultCalled ==
    /\ app = "chat"
    /\ Len(ToolResults(messages)) < MaxCalls
    /\ messages' = AppendToolResult(messages, CallId(1, 1), ResultPayload(ToolOutput("get_weather")))
    /\ UNCHANGED <<app, endpoint, initPc, llm, mainPc, clientVars, closeVars, wfVars>>
    /\ UNCHANGED <<pc, response, tcIdx, waitClient, turns, chatFails, taskResult, componentVars>>

\* One history continues another: nothing removed, reordered or rewritten.
IsPrefix(s, t) == Len(s) <= Len(t) /\ SubSeq(t, 1, Len(s)) = s

ChatNext ==
    \/ Chat
    \/ ChatCompletes
    \/ ChatRejects
    \/ AppendToolResultCalled

SpecChat == ChatInit /\ [][ChatNext]_vars

\* C20: every request chat() sends carries the whole history as it is when
\* the request is sent, and the definitions of all the tools the conversation
\* was constructed with.
C20_RequestCarriesHistoryAndTools ==
    [][ (app = "chat" /\ turns' > turns) =>
            /\ request'.messages = messages'
            /\ chatTools # << >> =>
                  /\ "tools" \in DOMAIN request'
                  /\ request'.tools = getToolsDefinition(chatTools) ]_vars

\* C21: the history is append-only. chat(prompt) appends the prompt as a user
\* message when there is one and nothing otherwise, a completion appends the
\* assistant's response, appendToolResult appends one tool message, a failed
\* request appends nothing, and every step leaves the messages already in
\* the history where and as they were.
C21_HistoryAppendOnly ==
    [][ /\ IsPrefix(messages, messages')
        /\ turns' > turns =>
              messages' = IF call'.prompt # NoResult
                          THEN Append(messages, Msg("user", call'.prompt, NoId, NoCalls))
                          ELSE messages
        /\ (pc = "chat" /\ ret'.kind = "response") =>
              messages' = Append(messages, Msg("assistant", ret'.value.content, NoId, NoCalls))
        /\ (pc = "chat" /\ ret'.kind = "thrown") => messages' = messages
        /\ (pc' = pc /\ messages' # messages) =>
              /\ Len(messages') = Len(messages) + 1
              /\ messages'[Len(messages')].role = "tool" ]_vars

\* A chat(prompt) with a prompt has completed, and a tool result was appended
\* next to it: the history holds a user, an assistant and a tool message.
C21_Witness ==
    /\ app = "chat"
    /\ call.op = "chat" /\ call.prompt # NoResult
    /\ ret.kind = "response"
    /\ \E i, j, k \in 1..Len(messages) :
          /\ i < j
          /\ messages[i] = Msg("user", call.prompt, NoId, NoCalls)
          /\ messages[j].role = "assistant"
          /\ messages[k].role = "tool"

\* ------------------------------------------------------------------ claims on the agents' history

\* The ids of the tool calls the assistant messages before position k carry.
CalledBefore(msgs, k) ==
    UNION { { msgs[j].toolCalls[i].id : i \in 1..Len(msgs[j].toolCalls) }
            : j \in { n \in 1..(k - 1) : msgs[n].role = "assistant" } }

\* C22: in every history the agents reach, each tool-role message carries
\* the id of a tool call that an earlier assistant message of the same
\* history contains.
C22_ToolResultsAnswerCalls ==
    \A k \in 1..Len(messages) :
        messages[k].role = "tool" => messages[k].tool_call_id \in CalledBefore(messages, k)

\* Two tool results are in the history of the agent, one of them an error.
C22_Witness ==
    /\ app = "supervisor"
    /\ \E k, l \in 1..Len(messages) :
          /\ k # l
          /\ messages[k].role = "tool" /\ messages[l].role = "tool"
          /\ Head(messages[k].content) = "error"
          /\ Head(messages[l].content) = "result"

\* ------------------------------------------------------------------ claims on search

Min(a, b) == IF a < b THEN a ELSE b

\* C23: search(query, topK) returns min(topK, size of the store) texts, the
\* first ones of the ranking of the whole store by descending similarity;
\* on an empty store it returns the empty sequence (vectors of one length).
C23_SearchReturnsTopOfRanking ==
    (Retrieved /\ OneLength(store, call.queryEmbedding))
       => /\ Len(ret.value) = Min(call.topK, Len(store))
          /\ ret.value = SubSeq(Ranking(store, call.queryEmbedding), 1, Len(ret.value))
          /\ store = << >> => ret.value = << >>

\* A vector of norm zero.
ZeroNorm(v) == SumSquares(Comps(v)) = Num(0)

ZeroScore == [nan |-> FALSE, sign |-> 0, square |-> Num(0)]

\* C24: the similarity of two vectors one of which has norm zero is 0, and
\* a search whose query is a zero vector returns the top of the ranking of
\* the stored texts that those similarities give (vectors of one length).
C24_ZeroNormScoresZero ==
    (Retrieved /\ OneLength(store, call.queryEmbedding))
       => /\ \A i \in 1..Len(store) :
                (ZeroNorm(call.queryEmbedding) \/ ZeroNorm(store[i].embedding))
                   => Scored(store, call.queryEmbedding)[i].score = ZeroScore
          /\ ZeroNorm(call.queryEmbedding)
                => ret.value = SubSeq(Ranking(store, call.queryEmbedding), 1,
                                      Min(call.topK, Len(store)))

\* ------------------------------------------------------------------ claims on the remote store

\* A step that issues an index request or a search request to the backend.
BackendRequested ==
    \/ Len(inflight') > Len(inflight)
    \/ rpc' = "search" /\ rpc # "search"

\* C25: the initialization of the index that the constructor of the remote
\* store started is over before any index or search request of the store is
\* issued to the backend.
C25_InitializedBeforeRequests ==
    [][ BackendRequested => indexPc = "over" ]_vars

\* The dimension initIndex() gives the knn_vector field of the index.
dimension == 1536

\* C26: every vector the retriever hands to the remote store, a record to
\* index or the query of a search, from the endpoint or from the fallback,
\* has the dimension the index of the store is created with.
C26_HandedVectorsFitIndex ==
    variant \in {"resize", "opensearch"}
       => /\ \A i \in 1..Len(inflight) : Dim(inflight[i].embedding) = dimension
          /\ rpc = "search" => Dim(call.queryEmbedding) = dimension

\* ------------------------------------------------------------------ claims on main

\* main is over: it returned, or an error left it.
MainOver == app = "mcp" /\ mainPc \in {"end", "crashed"}

\* C27: when main is over, on whatever path, the failures of agent.init()
\* and agent.invoke() included, no tool client that was initialized is
\* still connected.
C27_MainClosesWhatItOpened ==
    MainOver => \A c \in Clients : conn[c] # "Connected"

\* ------------------------------------------------------------------ claims on a failed chat

\* The user messages of a history that carry the prompt.
Copies(msgs, prompt) ==
    Len(SelectSeq(msgs, LAMBDA m : m = Msg("user", prompt, NoId, NoCalls)))

\* C28: when the request of chat(prompt) fails, chat throws the error again,
\* appends no assistant message and leaves the prompt it pushed in the
\* history; chat(prompt) called again with the same prompt then leaves a
\* second copy of that user message in the history.
C28_FailedChatKeepsPrompt ==
    [][ /\ (pc = "chat" /\ chatFails' > chatFails) =>
              /\ ret'.kind = "thrown"
              /\ messages' = messages
              /\ call.prompt # NoResult => Copies(messages', call.prompt) >= 1
        /\ (turns' > turns /\ ret.kind = "thrown"
               /\ call.prompt # NoResult /\ call'.prompt = call.prompt) =>
              /\ Copies(messages', call.prompt) = Copies(messages, call.prompt) + 1
              /\ Copies(messages', call.prompt) >= 2 ]_vars

\* chat(prompt) failed and was called again with the same prompt: the
\* history holds the prompt twice and no assistant message.
C28_Witness ==
    /\ app = "chat"
    /\ chatFails = 1 /\ turns = 2 /\ pc = "chat"
    /\ call.prompt = Query
    /\ Copies(messages, Query) = 2
    /\ \A i \in 1..Len(messages) : messages[i].role # "assistant"

\* ------------------------------------------------------------------ claims on malformed arguments

\* The turn of the conversation is over: every tool call requested so far
\* has been walked by the for-loop.
TurnWalked == pc \in {"chat", "done"}

\* C29: a tool call whose arguments are not valid JSON is forwarded to no
\* client and gets one tool-result message, carrying the parse error, under
\* its call id; the task is not aborted, and the other tool calls of the
\* turn get their one result each as well.
C29_MalformedArgsReported ==
    /\ FailedOnlyOutsideTools
    /\ \A tc \in RequestedCalls(messages) :
          ~ParseOK(tc.args) =>
             /\ \A i \in 1..Len(forwarded) : forwarded[i].id # tc.id
             /\ \A i \in ResultsFor(messages, tc.id) :
                   messages[i].content = ErrorPayload(SyntaxErrorMessage)
             /\ Cardinality(ResultsFor(messages, tc.id)) <= 1
             /\ TurnWalked =>
                   \A other \in RequestedCalls(messages) :
                      Cardinality(ResultsFor(messages, other.id)) = 1

\* C29 witness: the first call of a turn had malformed arguments and got
\* the parse error, the call after it was forwarded and got its result, and
\* the conversation has been resubmitted.
C29_Witness ==
    /\ pc = "chat"
    /\ turns > 1
    /\ \E i, j \in 1..Len(messages) :
          /\ i < j
          /\ messages[i].role = "tool"
          /\ messages[i].content = ErrorPayload(SyntaxErrorMessage)
          /\ messages[j].role = "tool"
          /\ Head(messages[j].content) = "result"
          /\ messages[j].tool_call_id = messages[i].tool_call_id + 1
          /\ \E k \in 1..Len(forwarded) : forwarded[k].id = messages[j].tool_call_id

\* ------------------------------------------------------------------ claims on the workflow

\* The stages of executeWorkflow, by the type of their task.
StageOrder == <<"knowledge_check", "rag_query", "mcp_tool">>

\* The stages that have been started: the running one and those before it;
\* after the workflow has ended, -1 (the records tell).
StagesStarted ==
    CASE wfPc = "idle" -> 0
      [] wfPc \in {"check", "embed"} -> 1
      [] wfPc = "retrieve" -> 2
      [] wfPc = "tools" -> 3
      [] OTHER -> -1

\* C30: the stages run in the order knowledge check, context retrieval,
\* tool execution, each one started only when the stage before it has
\* recorded its result; when the workflow ends every stage that was started
\* has its one record: all three after a return, and after a throw the
\* record of the stage that threw, with success = false, is the last one.
C30_StagesInOrderAndRecorded ==
    /\ Len(results) <= Len(StageOrder)
    /\ \A i \in 1..Len(results) : results[i].type = StageOrder[i]
    /\ StagesStarted > 0 => Len(results) = StagesStarted - 1
    /\ wfPc = "returned" => Len(results) = Len(StageOrder)
    /\ wfPc = "thrown" => /\ results # << >>
                          /\ ~results[Len(results)].success
====
